---- MODULE Spec2Model ----
(***************************************************************************)
(* SubtaskTimeoutManager (src/unnamed/part_001): the per-task timeout      *)
(* table with its warning and timeout timers, driven by one event loop.    *)
(* Time is in milliseconds.  A timer made by setTimeout is a record in     *)
(* sched until it fires or is cancelled with clearTimeout(handle).         *)
(***************************************************************************)
EXTENDS Integers, FiniteSets, Sequences, TLC

\* ---------------------------------------------------------------- bounds
\* The clock stops at MaxTicks * Tick.
MaxTicks == 6
\* Calls of startTimeout and successful calls of extendTimeout in one run.
MaxCalls == 3
\* The same, in one run of the specification with two tasks.
MaxCallsTwo == 2
\* The clock of that specification stops at MaxTicksTwo * Tick.
MaxTicksTwo == 3

\* ------------------------------------------------------- program constant
minRemainingMs == 60000

\* The clock moves by at most Tick ms in one step: a third of the floor, so
\* that requests fall below, on and above it.
Tick == minRemainingMs \div 3
\* The period of the progress component's setInterval.
IntervalMs == 1000
\* The periods the clock of the component runs for, and the changes of props
\* it is given.
MaxUiTicks == 3
MaxUiProps == 2
MaxTime == MaxTicks * Tick

\* ---------------------------------------------------------------- values
Ids == {"task1", "task2"}
\* The task of the runs with one task.
OneId == {"task1"}

\* An optional value (x?: T) is the empty set or a singleton.
None == {}
Some(x) == {x}
IsSome(o) == o # {}
Val(o) == CHOOSE x \in o : TRUE
\* JavaScript truthiness of an optional number: defined and not 0.
Truthy(o) == IsSome(o) /\ Val(o) # 0

Max(a, b) == IF a >= b THEN a ELSE b
Min(a, b) == IF a <= b THEN a ELSE b

Remove(f, k) == [x \in DOMAIN f \ {k} |-> f[x]]
Put(f, k, v) == [x \in DOMAIN f \cup {k} |-> IF x = k THEN v ELSE f[x]]
Get(f, k) == IF k \in DOMAIN f THEN {f[k]} ELSE {}
Empty == [x \in {} |-> 0]

\* TimeoutConfig: onTimeout is required; onWarning / onExtended say whether
\* the optional callback is supplied.
Config(d, w, ow, oe) ==
    [timeoutMs |-> d, warningMs |-> w, onWarning |-> ow, onExtended |-> oe]

\* The configs startTimeout is called with.
StartConfigs ==
    { Config(Tick, None, FALSE, FALSE),
      Config(4 * Tick, None, FALSE, FALSE),
      Config(4 * Tick, Some(Tick), TRUE, TRUE) }

\* The optional third argument of extendTimeout.
ExtendContexts ==
    { None,
      Some(Config(4 * Tick, None, FALSE, FALSE)),
      Some(Config(4 * Tick, Some(Tick), TRUE, TRUE)) }

\* The second argument of extendTimeout.
Deltas == {Tick, 0 - Tick}

VARIABLES
    now,        \* Date.now()
    statuses,   \* this.statuses : taskId -> TimeoutStatus
    timeouts,   \* this.timeouts : taskId -> timer handle
    warnings,   \* this.warnings : taskId -> timer handle
    sched,      \* the event loop's pending timers
    hist,       \* per task: what the callbacks of its latest start have seen
    lastOp,     \* the latest call and what it returned
    nCalls,     \* calls of startTimeout and successful ones of extendTimeout
    limbo,      \* cancelled timers that may still run (best-effort cancel)
    legacy,     \* the manager of src/src/core/task/SubtaskTimeoutManager.ts
                \* given the same calls: its maps, timers and callback record
    ui          \* the SubtaskTimeoutProgress component: props, state, refs

vars == <<now, statuses, timeouts, warnings, sched, hist, lastOp, nCalls, limbo,
          legacy, ui>>

\* ------------------------------------------------------------ observation
\* The record of one task's callbacks since its latest startTimeout:
\*   gen       the number of startTimeout calls for the task
\*   cfg       the config of the latest one, startAt its time
\*   extended  an extendTimeout has returned true since
\*   ended     "no", "expired" (onTimeout), "cleared", "clearedAll", "disposed"
\*   replaced  the deadline of the record the latest startTimeout replaced
\*   stale     a closure of an earlier start has called back
\*   late      a callback was called after the record had ended
\*   expect    the time at which the latest extendTimeout with a config left
\*             the timeout due: the time of the call plus getTimeRemaining
\*   seenActive  an onTimeout call has found the record still active
NoHist ==
    [gen |-> 0, cfg |-> None, startAt |-> 0, extended |-> FALSE,
     ended |-> "no", endedAt |-> 0, replaced |-> None,
     nTimeout |-> 0, timeoutAt |-> 0,
     nWarning |-> 0, warnAt |-> 0, warnArg |-> 0,
     stale |-> FALSE, late |-> FALSE, expect |-> None,
     seenActive |-> FALSE]

NoOp(name) ==
    [op |-> name, id |-> "", ret |-> FALSE, delta |-> 0, ctx |-> None,
     pre |-> None, ext |-> {}]

\* The manager, the timer queue and the callback record as one value, so that
\* a method that calls another method is a composition.
World ==
    [statuses |-> statuses, timeouts |-> timeouts, warnings |-> warnings,
     sched |-> sched, hist |-> hist]

Commit(w) ==
    /\ statuses' = w.statuses
    /\ timeouts' = w.timeouts
    /\ warnings' = w.warnings
    /\ sched' = w.sched
    /\ hist' = w.hist

\* config.onTimeout(taskId), called by the closure of timer t at time at.
CallOnTimeout(w, t, at) ==
    LET h == w.hist[t.id] IN
    IF t.gen = h.gen
    THEN [w EXCEPT !.hist[t.id].nTimeout = @ + 1, !.hist[t.id].timeoutAt = at,
                   !.hist[t.id].seenActive =
                       (@ \/ (t.id \in DOMAIN w.statuses
                              /\ w.statuses[t.id].isActive)),
                   !.hist[t.id].ended = "expired", !.hist[t.id].endedAt = at,
                   !.hist[t.id].late = (@ \/ h.ended # "no")]
    ELSE [w EXCEPT !.hist[t.id].stale = TRUE]

\* config.onWarning(taskId, remainingMs), called by the closure of timer t.
CallOnWarning(w, t, remainingMs, at) ==
    LET h == w.hist[t.id] IN
    IF t.gen = h.gen
    THEN [w EXCEPT !.hist[t.id].nWarning = @ + 1, !.hist[t.id].warnAt = at,
                   !.hist[t.id].warnArg = remainingMs,
                   !.hist[t.id].late = (@ \/ h.ended # "no")]
    ELSE [w EXCEPT !.hist[t.id].stale = TRUE]

\* ------------------------------------------------------------------ reads
isActive(taskId) ==
    IF taskId \in DOMAIN statuses THEN statuses[taskId].isActive ELSE FALSE

\* A remaining time without Math.max(0, ...).
getTimeRemainingUnclamped(taskId) ==
    IF taskId \in DOMAIN statuses /\ statuses[taskId].isActive
    THEN statuses[taskId].timeoutMs - (now - statuses[taskId].startTime)
    ELSE 0

getTimeRemaining(taskId) ==
    IF taskId \notin DOMAIN statuses \/ ~statuses[taskId].isActive
    THEN 0
    ELSE Max(0, statuses[taskId].timeoutMs - (now - statuses[taskId].startTime))

getActiveTimeouts == {id \in DOMAIN statuses : statuses[id].isActive}

\* ----------------------------------------------------------------- timers
\* setTimeout(handler, delay) called at time t: the handle of the new timer.
\* origin names the closure: "start", "extend" or "extendClamped".
SetTimeout(id, kind, origin, config, delay, t, gen, seq) ==
    [id |-> id, kind |-> kind, origin |-> origin, config |-> config,
     due |-> t + Max(delay, 0), gen |-> gen, seq |-> seq]

\* clearTimeout(handle) for an optional handle.
CancelHandles(s, hs) == s \ hs

\* ------------------------------------------------------------- clearTimeout
\* A clearTimeout that cancels nothing and removes nothing.
clearTimeoutKeepsAll(w, taskId) == w

\* A clearTimeout that marks the record inactive and leaves it in the map.
clearTimeoutMarksOnly(w, taskId) ==
    LET hs == Get(w.timeouts, taskId) \cup Get(w.warnings, taskId)
    IN  [w EXCEPT !.sched = CancelHandles(@, hs),
                  !.timeouts = Remove(@, taskId),
                  !.warnings = Remove(@, taskId),
                  !.statuses = IF taskId \in DOMAIN @
                               THEN [@ EXCEPT ![taskId].isActive = FALSE]
                               ELSE @]

\* A clearTimeout that cancels and forgets every task.
clearTimeoutEveryTask(w, taskId) ==
    [w EXCEPT !.sched = {}, !.timeouts = Empty, !.warnings = Empty,
              !.statuses = Empty]

clearTimeoutF(w, taskId) ==
    LET timeoutHandle == Get(w.timeouts, taskId)
        warningHandle == Get(w.warnings, taskId)
    IN  [w EXCEPT !.sched = CancelHandles(@, timeoutHandle \cup warningHandle),
                  !.timeouts = Remove(@, taskId),
                  !.warnings = Remove(@, taskId),
                  !.statuses = Remove(@, taskId)]

\* A clearTimeout that answers whether a timeout handle was stored.
clearTimeoutRetHandle(w, taskId) == taskId \in DOMAIN w.timeouts

clearTimeoutRet(w, taskId) == taskId \in DOMAIN w.statuses

\* ------------------------------------------------------------- startTimeout
\* A start closure that reports the whole duration.
StartWarningRemainingTotal(config) == config.timeoutMs

\* Math.max(0, config.timeoutMs - config.warningMs!) of the start closure.
StartWarningRemaining(config) ==
    Max(0, config.timeoutMs - Val(config.warningMs))

NewStatus(taskId, config, t) ==
    [taskId |-> taskId, startTime |-> t, timeoutMs |-> config.timeoutMs,
     warningMs |-> config.warningMs, hasWarned |-> FALSE, isActive |-> TRUE]

\* A startTimeout that does not clear the task's previous record and timers.
startTimeoutNoClear(w, taskId, config, t, gen, seq) ==
    LET w2 == [w EXCEPT !.statuses = Put(@, taskId, NewStatus(taskId, config, t))]
        wt == SetTimeout(taskId, "warning", "start", config, Val(config.warningMs), t, gen, seq)
        w3 == IF Truthy(config.warningMs) /\ config.onWarning
              THEN [w2 EXCEPT !.sched = @ \cup {wt},
                              !.warnings = Put(@, taskId, wt)]
              ELSE w2
        tt == SetTimeout(taskId, "timeout", "start", config, config.timeoutMs, t, gen, seq)
    IN  [w3 EXCEPT !.sched = @ \cup {tt},
                   !.timeouts = Put(@, taskId, tt)]

\* A startTimeout that schedules the timeout only for a positive timeoutMs.
startTimeoutSkipsNonPositive(w, taskId, config, t, gen, seq) ==
    LET w1 == clearTimeoutF(w, taskId)
    IN  IF config.timeoutMs > 0
        THEN startTimeoutNoClear(w1, taskId, config, t, gen, seq)
        ELSE [w1 EXCEPT !.statuses = Put(@, taskId, NewStatus(taskId, config, t))]

startTimeoutF(w, taskId, config, t, gen, seq) ==
    LET w1 == clearTimeoutF(w, taskId)
        w2 == [w1 EXCEPT !.statuses = Put(@, taskId, NewStatus(taskId, config, t))]
        wt == SetTimeout(taskId, "warning", "start", config, Val(config.warningMs), t, gen, seq)
        w3 == IF Truthy(config.warningMs) /\ config.onWarning
              THEN [w2 EXCEPT !.sched = @ \cup {wt},
                              !.warnings = Put(@, taskId, wt)]
              ELSE w2
        tt == SetTimeout(taskId, "timeout", "start", config, config.timeoutMs, t, gen, seq)
    IN  [w3 EXCEPT !.sched = @ \cup {tt},
                   !.timeouts = Put(@, taskId, tt)]

StartTimeout(taskId, config) ==
    /\ LET old == Get(statuses, taskId)
           gen == hist[taskId].gen + 1
           w1 == startTimeoutF(World, taskId, config, now, gen, nCalls)
           h == [NoHist EXCEPT !.gen = gen, !.cfg = Some(config), !.startAt = now,
                        !.replaced = {s.startTime + s.timeoutMs : s \in old}]
       IN  /\ Commit([w1 EXCEPT !.hist[taskId] = h])
           /\ lastOp' = [NoOp("start") EXCEPT !.id = taskId]
    /\ nCalls' = nCalls + 1
    /\ UNCHANGED now

\* ------------------------------------------------------------ extendTimeout
\* const elapsed = Date.now() - status.startTime
Elapsed(status, t) == t - status.startTime

\* An extendTimeout that never raises the remaining time to the floor.
IsClampedNever(status, extensionMs, t) == FALSE

\* remainingMs < minRemainingMs: the request falls below the floor.
IsClamped(status, extensionMs, t) ==
    (status.timeoutMs + extensionMs) - Elapsed(status, t) < minRemainingMs

\* An extendTimeout without the floor.
CommittedNoFloor(status, extensionMs, t) == status.timeoutMs + extensionMs

\* An extendTimeout whose floor is a total duration, not a remaining time.
CommittedFloorFromStart(status, extensionMs, t) ==
    IF IsClamped(status, extensionMs, t)
    THEN minRemainingMs
    ELSE status.timeoutMs + extensionMs

\* The timeoutMs extendTimeout commits: newTimeoutMs, or elapsed +
\* minRemainingMs when the remaining time would fall below the floor.
CommittedTimeoutMs(status, extensionMs, t) ==
    IF IsClamped(status, extensionMs, t)
    THEN Elapsed(status, t) + minRemainingMs
    ELSE status.timeoutMs + extensionMs

\* A hasWarned that every extension resets.
WarnedAfterExtendReset(status, t) == FALSE

\* elapsed >= (status.warningMs || Infinity)
WarnedAfterExtend(status, t) ==
    Truthy(status.warningMs) /\ Elapsed(status, t) >= Val(status.warningMs)

\* An extendTimeout that restarts the record at the time of the call.
ExtendedStatusRestart(status, extensionMs, t) ==
    [status EXCEPT !.startTime = t,
                   !.timeoutMs = CommittedTimeoutMs(status, extensionMs, t)
                                 - Elapsed(status, t),
                   !.hasWarned = WarnedAfterExtend(status, t)]

\* newStatus = {...status, timeoutMs, hasWarned}, the same in both branches.
ExtendedStatus(status, extensionMs, t) ==
    [status EXCEPT !.timeoutMs = CommittedTimeoutMs(status, extensionMs, t),
                   !.hasWarned = WarnedAfterExtend(status, t)]

\* status.warningMs ? Math.max(0, status.warningMs - elapsed) : undefined
RemainingWarningMs(status, t) ==
    IF Truthy(status.warningMs)
    THEN Some(Max(0, Val(status.warningMs) - Elapsed(status, t)))
    ELSE None

\* Timers whose delay is the whole new duration, not what remains of it.
ExtendTimersFromTotal(taskId, status, extensionMs, config, t, gen, seq) ==
    [warning |-> None,
     timeout |-> Some(SetTimeout(taskId, "timeout", "extend", config,
                                 CommittedTimeoutMs(status, extensionMs, t),
                                 t, gen, seq))]

\* The timers extendTimeout schedules when a config is passed: in the clamped
\* branch the timeout alone, minRemainingMs from now; otherwise the warning, if
\* one is still to come, and the timeout at the new remaining time.
ExtendTimers(taskId, status, extensionMs, config, t, gen, seq) ==
    LET newStatus == ExtendedStatus(status, extensionMs, t)
        rw == RemainingWarningMs(status, t)
    IN  IF IsClamped(status, extensionMs, t)
        THEN [warning |-> None,
              timeout |-> Some(SetTimeout(taskId, "timeout", "extendClamped",
                                          config, minRemainingMs, t, gen, seq))]
        ELSE [warning |->
                IF Truthy(rw) /\ Val(rw) > 0 /\ config.onWarning
                   /\ ~newStatus.hasWarned
                THEN Some(SetTimeout(taskId, "warning", "extend", config,
                                     Val(rw), t, gen, seq))
                ELSE None,
              timeout |->
                Some(SetTimeout(taskId, "timeout", "extend", config,
                     (status.timeoutMs + extensionMs) - Elapsed(status, t),
                     t, gen, seq))]

\* An onExtended that reports the requested total, clamped or not.
ExtendedCallsRequested(status, extensionMs, ctx, t) ==
    IF IsSome(ctx) /\ Val(ctx).onExtended
    THEN {status.timeoutMs + extensionMs - Elapsed(status, t)}
    ELSE {}

\* An onExtended that reports the total the record had before the call.
ExtendedCallsOldTotal(status, extensionMs, ctx, t) ==
    IF IsSome(ctx) /\ Val(ctx).onExtended
    THEN {status.timeoutMs}
    ELSE {}

\* The arguments of config.onExtended?.(taskId, ...) in this call.
ExtendedCalls(status, extensionMs, ctx, t) ==
    IF IsSome(ctx) /\ Val(ctx).onExtended
    THEN {CommittedTimeoutMs(status, extensionMs, t)}
    ELSE {}

\* An extendTimeout that forgets the old handles without clearing them.
extendTimeoutLeaksOld(w, taskId, extensionMs, ctx, t, gen, seq) ==
    LET status == w.statuses[taskId]
        w2 == [w EXCEPT !.timeouts = Remove(@, taskId),
                        !.warnings = Remove(@, taskId),
                        !.statuses =
                            Put(@, taskId, ExtendedStatus(status, extensionMs, t))]
    IN  IF ctx = None
        THEN w2
        ELSE LET ts == ExtendTimers(taskId, status, extensionMs, Val(ctx), t, gen, seq)
             IN  [w2 EXCEPT
                    !.sched = @ \cup ts.warning \cup ts.timeout,
                    !.warnings = IF IsSome(ts.warning)
                                 THEN Put(@, taskId, Val(ts.warning)) ELSE @,
                    !.timeouts = Put(@, taskId, Val(ts.timeout))]

\* An extendTimeout that cancels the pending timers only when it is given a
\* config to reschedule them with.
extendTimeoutCancelsWithConfig(w, taskId, extensionMs, ctx, t, gen, seq) ==
    LET status == w.statuses[taskId]
        hs == Get(w.timeouts, taskId) \cup Get(w.warnings, taskId)
        w2 == [w EXCEPT !.statuses =
                  Put(@, taskId, ExtendedStatus(status, extensionMs, t))]
    IN  IF ctx = None
        THEN w2
        ELSE LET ts == ExtendTimers(taskId, status, extensionMs, Val(ctx), t, gen, seq)
             IN  [w2 EXCEPT
                    !.sched = CancelHandles(@, hs) \cup ts.warning \cup ts.timeout,
                    !.warnings = IF IsSome(ts.warning)
                                 THEN Put(@, taskId, Val(ts.warning))
                                 ELSE Remove(@, taskId),
                    !.timeouts = Put(@, taskId, Val(ts.timeout))]

\* An extendTimeout that never reschedules, config or not.
extendTimeoutNeverReschedules(w, taskId, extensionMs, ctx, t, gen, seq) ==
    LET status == w.statuses[taskId]
        hs == Get(w.timeouts, taskId) \cup Get(w.warnings, taskId)
    IN  [w EXCEPT !.sched = CancelHandles(@, hs),
                  !.timeouts = Remove(@, taskId),
                  !.warnings = Remove(@, taskId),
                  !.statuses =
                      Put(@, taskId, ExtendedStatus(status, extensionMs, t))]

\* extendTimeout on an active record: cancel both timers, commit the new
\* status, reschedule when a config is passed.
extendTimeoutF(w, taskId, extensionMs, ctx, t, gen, seq) ==
    LET status == w.statuses[taskId]
        timeoutHandle == Get(w.timeouts, taskId)
        warningHandle == Get(w.warnings, taskId)
        w1 == [w EXCEPT !.sched = CancelHandles(@, timeoutHandle \cup warningHandle),
                        !.timeouts = Remove(@, taskId),
                        !.warnings = Remove(@, taskId)]
        w2 == [w1 EXCEPT !.statuses =
                  Put(@, taskId, ExtendedStatus(status, extensionMs, t))]
    IN  IF ctx = None
        THEN w2
        ELSE LET ts == ExtendTimers(taskId, status, extensionMs, Val(ctx), t, gen, seq)
             IN  [w2 EXCEPT
                    !.sched = @ \cup ts.warning \cup ts.timeout,
                    !.warnings = IF IsSome(ts.warning)
                                 THEN Put(@, taskId, Val(ts.warning)) ELSE @,
                    !.timeouts = Put(@, taskId, Val(ts.timeout))]

\* if (!status || !status.isActive) return false
extendTimeoutRet(w, taskId) ==
    taskId \in DOMAIN w.statuses /\ w.statuses[taskId].isActive

\* An extendTimeout that notifies before it looks the record up.
extendTimeoutCallNotifiesFirst(w, taskId, extensionMs, ctx, t, gen, seq) ==
    IF extendTimeoutRet(w, taskId)
    THEN [w |-> extendTimeoutF(w, taskId, extensionMs, ctx, t, gen, seq),
          ret |-> TRUE,
          ext |-> ExtendedCalls(w.statuses[taskId], extensionMs, ctx, t)]
    ELSE [w |-> w, ret |-> FALSE,
          ext |-> IF IsSome(ctx) /\ Val(ctx).onExtended
                  THEN {extensionMs} ELSE {}]

\* One call of extendTimeout: the manager after it, the value it returns and
\* the arguments of the onExtended calls it makes.
extendTimeoutCall(w, taskId, extensionMs, ctx, t, gen, seq) ==
    IF extendTimeoutRet(w, taskId)
    THEN [w |-> extendTimeoutF(w, taskId, extensionMs, ctx, t, gen, seq),
          ret |-> TRUE,
          ext |-> ExtendedCalls(w.statuses[taskId], extensionMs, ctx, t)]
    ELSE [w |-> w, ret |-> FALSE, ext |-> {}]

\* What the caller reads after the call: the time the timeout is now due.
DueAfter(w, taskId, t) ==
    LET st == w.statuses[taskId]
    IN  t + Max(0, st.timeoutMs - (t - st.startTime))

ExtendTimeout(taskId, extensionMs, ctx) ==
    LET r == extendTimeoutCall(World, taskId, extensionMs, ctx, now,
                               hist[taskId].gen, nCalls)
    IN  /\ IF r.ret
           THEN /\ Commit([r.w EXCEPT
                             !.hist[taskId].extended = TRUE,
                             !.hist[taskId].expect =
                                 IF IsSome(ctx)
                                 THEN Some(DueAfter(r.w, taskId, now))
                                 ELSE None])
                /\ nCalls' = nCalls + 1
           ELSE /\ Commit(r.w)
                /\ UNCHANGED nCalls
        /\ lastOp' = [NoOp("extend") EXCEPT
                         !.id = taskId, !.ret = r.ret, !.delta = extensionMs,
                         !.ctx = ctx, !.pre = Get(statuses, taskId),
                         !.ext = r.ext]
        /\ UNCHANGED now

\* ------------------------------------------------- clearTimeout, clearAll, dispose
\* The record of the tasks that a call has ended.
MarkEnded(h, ids, how, at) ==
    [id \in DOMAIN h |->
        IF id \in ids
        THEN [h[id] EXCEPT !.ended = how, !.endedAt = at]
        ELSE h[id]]

ClearTimeout(taskId) ==
    /\ Commit([clearTimeoutF(World, taskId) EXCEPT
                 !.hist = MarkEnded(@, {taskId} \cap DOMAIN statuses, "cleared", now)])
    /\ lastOp' = [NoOp("clear") EXCEPT !.id = taskId,
                                       !.ret = clearTimeoutRet(World, taskId)]
    /\ UNCHANGED <<now, nCalls>>

\* clearTimeout(taskId) for every taskId of ids, one after the other.
RECURSIVE clearEach(_, _)
clearEach(w, ids) ==
    IF ids = {} THEN w
    ELSE LET id == CHOOSE x \in ids : TRUE
         IN  clearEach(clearTimeoutF(w, id), ids \ {id})

\* A clearAll that stops after the first active record.
clearAllFirstOnly(w) ==
    LET active == {id \in DOMAIN w.statuses : w.statuses[id].isActive}
    IN  IF active = {} THEN w
        ELSE clearTimeoutF(w, CHOOSE x \in active : TRUE)

\* for (const [taskId, status] of this.statuses.entries())
\*     if (status.isActive) { status.isActive = false; this.clearTimeout(taskId) }
clearAllF(w) ==
    clearEach(w, {id \in DOMAIN w.statuses : w.statuses[id].isActive})

ClearAll ==
    /\ LET w1 == clearAllF(World)
       IN  Commit([w1 EXCEPT !.hist = MarkEnded(@, getActiveTimeouts, "clearedAll", now)])
    /\ lastOp' = NoOp("clearAll")
    /\ UNCHANGED <<now, nCalls>>

\* A dispose that empties the three maps and cancels no timer.
disposeKeepsTimers(w) ==
    [w EXCEPT !.timeouts = Empty, !.warnings = Empty, !.statuses = Empty]

\* clearTimeout of every handle of both maps, then the three maps are emptied.
disposeF(w) ==
    LET handles == {w.timeouts[id] : id \in DOMAIN w.timeouts}
                   \cup {w.warnings[id] : id \in DOMAIN w.warnings}
    IN  [w EXCEPT !.sched = CancelHandles(@, handles),
                  !.timeouts = Empty, !.warnings = Empty, !.statuses = Empty]

Dispose ==
    /\ Commit([disposeF(World) EXCEPT !.hist = MarkEnded(@, DOMAIN statuses, "disposed", now)])
    /\ lastOp' = NoOp("dispose")
    /\ UNCHANGED <<now, nCalls>>

\* ------------------------------------------------------------ timer handlers
\* A timeout closure that calls onTimeout and leaves the record in place.
timeoutHandlerKeepsRecord(w, t, at) ==
    LET currentStatus == Get(w.statuses, t.id) IN
    IF IsSome(currentStatus) /\ Val(currentStatus).isActive
    THEN CallOnTimeout(w, t, at)
    ELSE w

\* A timeout closure that does not look at the record before it acts.
timeoutHandlerNoGuard(w, t, at) ==
    CallOnTimeout(clearTimeoutF(w, t.id), t, at)

\* The timeout closures of startTimeout and of both branches of extendTimeout.
timeoutHandlerF(w, t, at) ==
    LET currentStatus == Get(w.statuses, t.id) IN
    IF IsSome(currentStatus) /\ Val(currentStatus).isActive
    THEN CallOnTimeout(clearTimeoutF(w, t.id), t, at)
    ELSE w

\* The remainingMs a warning closure reports.
WarningRemaining(t, currentStatus, at) ==
    IF t.origin = "start"
    THEN StartWarningRemaining(t.config)
    ELSE Max(0, currentStatus.timeoutMs - (at - currentStatus.startTime))

\* The warning closures of startTimeout and of extendTimeout.
warningHandlerF(w, t, at) ==
    LET currentStatus == Get(w.statuses, t.id) IN
    IF IsSome(currentStatus) /\ Val(currentStatus).isActive
       /\ ~Val(currentStatus).hasWarned
    THEN CallOnWarning([w EXCEPT !.statuses[t.id].hasWarned = TRUE],
                       t, WarningRemaining(t, Val(currentStatus), at), at)
    ELSE w

\* The event loop runs a timer that is due.
FireTimer(t) ==
    /\ t \in sched
    /\ t.due <= now
    /\ LET w0 == [World EXCEPT !.sched = @ \ {t}]
       IN  Commit(IF t.kind = "timeout"
                  THEN timeoutHandlerF(w0, t, now)
                  ELSE warningHandlerF(w0, t, now))
    /\ lastOp' = [NoOp("fire") EXCEPT !.id = t.id]
    /\ UNCHANGED <<now, nCalls>>

\* Time passes, but not past a timer that is due: the loop runs it first.
Advance(limit) ==
    /\ now < limit
    /\ \A t \in sched : t.due > now
    /\ \E next \in {Min(now + Tick, limit)} \cup {t.due : t \in sched} :
          /\ next > now
          /\ next <= now + Tick
          /\ \A t \in sched : t.due >= next
          /\ now' = next
    /\ lastOp' = NoOp("tick")
    /\ UNCHANGED <<statuses, timeouts, warnings, sched, hist, nCalls>>

\* ------------------------------------------- SubtaskTimeoutProgress.tsx
\* The component before it is mounted.
Unmounted ==
    [mounted |-> FALSE, taskId |-> "", timeoutMs |-> 0, startTime |-> 0,
     currentTime |-> 0, isExpired |-> FALSE,
     expiredNotifiedRef |-> FALSE,
     prevTaskIdRef |-> None, prevStartTimeRef |-> None,
     resetDeps |-> None, expiryDeps |-> None,
     stale |-> FALSE, mountedAt |-> 0, nProps |-> 0,
     posted |-> 0, notifications |-> 0, resets |-> 0]

\* const elapsed = currentTime - startTime
elapsed(u) == u.currentTime - u.startTime

\* const remaining = Math.max(0, timeoutMs - elapsed)
remaining(u) == Max(0, u.timeoutMs - elapsed(u))

\* A reset effect that sets currentTime back on every change of props.
resetEffectAlways(u) ==
    [u EXCEPT !.isExpired = FALSE, !.expiredNotifiedRef = FALSE,
              !.currentTime = u.startTime,
              !.prevTaskIdRef = Some(u.taskId),
              !.prevStartTimeRef = Some(u.startTime),
              !.resets = @ + 1]

\* The effect of [taskId, timeoutMs, startTime]: setIsExpired(false), the ref
\* is cleared, and for another taskId or startTime setCurrentTime(startTime).
resetEffect(u) ==
    LET isNewTimeout == \/ Some(u.taskId) # u.prevTaskIdRef
                        \/ Some(u.startTime) # u.prevStartTimeRef
        u1 == [u EXCEPT !.isExpired = FALSE, !.expiredNotifiedRef = FALSE]
    IN  IF isNewTimeout
        THEN [u1 EXCEPT !.currentTime = u.startTime,
                        !.prevTaskIdRef = Some(u.taskId),
                        !.prevStartTimeRef = Some(u.startTime),
                        !.resets = @ + 1]
        ELSE u1

\* An expiry effect that posts whenever the remaining time is 0.
expiryEffectUnguarded(u, rem, expired) ==
    IF rem <= 0
    THEN [u EXCEPT !.isExpired = TRUE, !.expiredNotifiedRef = TRUE,
                   !.posted = @ + 1, !.notifications = @ + 1]
    ELSE u

\* The effect of [remaining, isExpired, taskId]: rem and expired are the
\* values of the render, the ref is read when the effect runs.
expiryEffect(u, rem, expired) ==
    IF rem <= 0 /\ ~expired /\ ~u.expiredNotifiedRef
    THEN [u EXCEPT !.isExpired = TRUE, !.expiredNotifiedRef = TRUE,
                   !.posted = @ + 1, !.notifications = @ + 1]
    ELSE u

\* One render and the effects that follow it, those whose deps have changed,
\* in the order of their declaration.
renderF(u) ==
    LET rem == remaining(u)
        expired == u.isExpired
        resetNow == <<u.taskId, u.timeoutMs, u.startTime>>
        expiryNow == <<rem, expired, u.taskId>>
        u1 == IF u.resetDeps # Some(resetNow) THEN resetEffect(u) ELSE u
        u2 == IF u.expiryDeps # Some(expiryNow)
              THEN expiryEffect(u1, rem, expired) ELSE u1
    IN  [u2 EXCEPT !.resetDeps = Some(resetNow), !.expiryDeps = Some(expiryNow),
                   !.stale = (u2.currentTime # u.currentTime
                              \/ u2.isExpired # u.isExpired)]

\* The props the component is given: a task, its timeoutMs and its startTime.
UiProps ==
    [taskId : Ids, timeoutMs : {IntervalMs, 2 * IntervalMs},
     startTime : {0, IntervalMs}]

\* The component as its first render finds it: useState(Date.now()),
\* useState(false), the refs unset.
Mounted(p, t) ==
    [Unmounted EXCEPT !.mounted = TRUE, !.taskId = p.taskId,
                      !.timeoutMs = p.timeoutMs, !.startTime = p.startTime,
                      !.currentTime = t, !.mountedAt = t]

\* The component as a render with the props p finds it.
WithProps(u, p) ==
    [u EXCEPT !.taskId = p.taskId, !.timeoutMs = p.timeoutMs,
              !.startTime = p.startTime, !.nProps = @ + 1, !.posted = 0]

\* The component is mounted: its first render, and every effect runs.
UiMount(p) ==
    /\ ~ui.mounted
    /\ p.startTime <= now
    /\ ui' = renderF(Mounted(p, now))

\* The parent renders the component with other props, and the effects whose
\* deps have changed run.
UiSetProps(p) ==
    /\ ui.mounted
    /\ ui.nProps < MaxUiProps
    /\ p.startTime <= now
    /\ <<p.taskId, p.timeoutMs, p.startTime>> #
          <<ui.taskId, ui.timeoutMs, ui.startTime>>
    /\ ui' = renderF(WithProps(ui, p))

\* The interval runs: setCurrentTime(Date.now()).
UiTick ==
    /\ ui.mounted
    /\ ui.resetDeps # None
    /\ now >= ui.mountedAt + IntervalMs
    /\ ui.currentTime # now
    /\ ui' = [ui EXCEPT !.currentTime = now, !.stale = TRUE]

\* React renders the component again for a change of its state, and the
\* effects whose deps have changed run.
UiRender ==
    /\ ui.mounted
    /\ ui.stale
    /\ ui' = renderF(ui)

\* Date.now() advances by one period of the interval.
UiAdvance ==
    /\ now < MaxUiTicks * IntervalMs
    /\ now' = now + IntervalMs
    /\ UNCHANGED ui

\* The component does not touch the managers.
UiFrame ==
    UNCHANGED <<statuses, timeouts, warnings, sched, hist, lastOp, nCalls,
                limbo, legacy>>

\* ------------------------------------------------------------------- system
Init ==
    /\ now = 0
    /\ statuses = Empty
    /\ timeouts = Empty
    /\ warnings = Empty
    /\ sched = {}
    /\ hist = [id \in Ids |-> NoHist]
    /\ lastOp = NoOp("new")
    /\ nCalls = 0
    /\ limbo = {}
    /\ legacy = [statuses |-> Empty, timeouts |-> Empty, warnings |-> Empty,
                 sched |-> {}, hist |-> [id \in Ids |-> NoHist]]
    /\ ui = Unmounted

\* One task, every input.
Next ==
    \/ /\ nCalls < MaxCalls
       /\ \E id \in OneId, c \in StartConfigs : StartTimeout(id, c)
       /\ UNCHANGED <<limbo, legacy, ui>>
    \/ /\ nCalls < MaxCalls
       /\ \E id \in OneId, d \in Deltas, c \in ExtendContexts : ExtendTimeout(id, d, c)
       /\ UNCHANGED <<limbo, legacy, ui>>
    \/ (\E id \in OneId : ClearTimeout(id)) /\ UNCHANGED <<limbo, legacy, ui>>
    \/ ClearAll /\ UNCHANGED <<limbo, legacy, ui>>
    \/ Dispose /\ UNCHANGED <<limbo, legacy, ui>>
    \/ (\E t \in sched : FireTimer(t)) /\ UNCHANGED <<limbo, legacy, ui>>
    \/ Advance(MaxTime) /\ UNCHANGED <<limbo, legacy, ui>>

Spec == Init /\ [][Next]_vars

\* Two tasks, fewer calls and inputs.
ConfigsTwo == {Config(2 * Tick, Some(Tick), TRUE, TRUE)}

NextTwo ==
    \/ /\ nCalls < MaxCallsTwo
       /\ \E id \in Ids, c \in ConfigsTwo : StartTimeout(id, c)
       /\ UNCHANGED <<limbo, legacy, ui>>
    \/ /\ nCalls < MaxCallsTwo
       /\ \E id \in Ids, c \in ConfigsTwo : ExtendTimeout(id, Tick, Some(c))
       /\ UNCHANGED <<limbo, legacy, ui>>
    \/ (\E id \in Ids : ClearTimeout(id)) /\ UNCHANGED <<limbo, legacy, ui>>
    \/ ClearAll /\ UNCHANGED <<limbo, legacy, ui>>
    \/ Dispose /\ UNCHANGED <<limbo, legacy, ui>>
    \/ (\E t \in sched : FireTimer(t)) /\ UNCHANGED <<limbo, legacy, ui>>
    \/ Advance(MaxTicksTwo * Tick) /\ UNCHANGED <<limbo, legacy, ui>>

SpecTwo == Init /\ [][NextTwo]_vars

\* ------------------------------------------- a callback that starts again
\* config.onTimeout(taskId) given by a caller whose callback calls
\* startTimeout(taskId, restart): the call is logged, then the manager
\* starts the new record.
OnTimeoutRestart(w, t, at, restart, seq) ==
    LET w1 == CallOnTimeout(w, t, at)
        gen == w1.hist[t.id].gen + 1
        w2 == startTimeoutF(w1, t.id, restart, at, gen, seq)
        h == [NoHist EXCEPT
                 !.gen = gen, !.cfg = Some(restart), !.startAt = at,
                 !.seenActive = w1.hist[t.id].seenActive,
                 !.replaced = {s.startTime + s.timeoutMs :
                                  s \in Get(w1.statuses, t.id)}]
    IN  [w2 EXCEPT !.hist[t.id] = h]

\* A timeout closure that calls onTimeout before it removes the record.
timeoutHandlerCallsBackFirst(w, t, at, restart, seq) ==
    LET currentStatus == Get(w.statuses, t.id) IN
    IF IsSome(currentStatus) /\ Val(currentStatus).isActive
    THEN clearTimeoutF(OnTimeoutRestart(w, t, at, restart, seq), t.id)
    ELSE w

\* The timeout closure, with that callback: isActive = false and
\* clearTimeout(taskId) come first, config.onTimeout(taskId) last.
timeoutHandlerRestarting(w, t, at, restart, seq) ==
    LET currentStatus == Get(w.statuses, t.id) IN
    IF IsSome(currentStatus) /\ Val(currentStatus).isActive
    THEN OnTimeoutRestart(clearTimeoutF(w, t.id), t, at, restart, seq)
    ELSE w

\* The event loop runs a timeout timer whose callback starts the task again.
FireTimerRestarting(t, restart) ==
    /\ t \in sched
    /\ t.due <= now
    /\ t.kind = "timeout"
    /\ LET w0 == [World EXCEPT !.sched = @ \ {t}]
           w1 == timeoutHandlerRestarting(w0, t, now, restart, nCalls)
       IN  /\ Commit(w1)
           /\ lastOp' = [NoOp("fireRestart") EXCEPT
                            !.id = t.id, !.ctx = Some(restart),
                            !.pre = Get(statuses, t.id),
                            !.ret = (w1.hist[t.id].gen > hist[t.id].gen)]
    /\ nCalls' = nCalls + 1
    /\ UNCHANGED now

\* The start configs, and one whose warning would come after its timeout.
ReenterConfigs == StartConfigs \cup {Config(Tick, Some(2 * Tick), TRUE, FALSE)}

NextReenter ==
    \/ /\ nCalls < MaxCallsTwo
       /\ \E id \in OneId, c \in ReenterConfigs : StartTimeout(id, c)
       /\ UNCHANGED <<limbo, legacy, ui>>
    \/ /\ nCalls < MaxCallsTwo
       /\ \E id \in OneId, d \in Deltas, c \in ExtendContexts : ExtendTimeout(id, d, c)
       /\ UNCHANGED <<limbo, legacy, ui>>
    \/ (\E id \in OneId : ClearTimeout(id)) /\ UNCHANGED <<limbo, legacy, ui>>
    \/ (\E t \in sched : FireTimer(t)) /\ UNCHANGED <<limbo, legacy, ui>>
    \/ /\ nCalls < MaxCallsTwo
       /\ \E t \in sched, c \in ReenterConfigs : FireTimerRestarting(t, c)
       /\ UNCHANGED <<limbo, legacy, ui>>
    \/ Advance(MaxTicksTwo * Tick) /\ UNCHANGED <<limbo, legacy, ui>>

SpecReenter == Init /\ [][NextReenter]_vars

\* One task started with a timeoutMs of zero or below, with a warningMs of
\* zero, or with an ordinary config.
EdgeConfigs ==
    { Config(0, None, FALSE, FALSE),
      Config(0 - Tick, None, FALSE, FALSE),
      Config(0, Some(Tick), TRUE, FALSE),
      Config(Tick, Some(0), TRUE, FALSE),
      Config(4 * Tick, Some(Tick), TRUE, TRUE) }

NextEdge ==
    \/ /\ nCalls < MaxCallsTwo
       /\ \E id \in OneId, c \in EdgeConfigs : StartTimeout(id, c)
       /\ UNCHANGED <<limbo, legacy, ui>>
    \/ /\ nCalls < MaxCallsTwo
       /\ \E id \in OneId, d \in Deltas, c \in ExtendContexts : ExtendTimeout(id, d, c)
       /\ UNCHANGED <<limbo, legacy, ui>>
    \/ (\E id \in OneId : ClearTimeout(id)) /\ UNCHANGED <<limbo, legacy, ui>>
    \/ ClearAll /\ UNCHANGED <<limbo, legacy, ui>>
    \/ Dispose /\ UNCHANGED <<limbo, legacy, ui>>
    \/ (\E t \in sched : FireTimer(t)) /\ UNCHANGED <<limbo, legacy, ui>>
    \/ Advance(MaxTicksTwo * Tick) /\ UNCHANGED <<limbo, legacy, ui>>

SpecEdge == Init /\ [][NextEdge]_vars

\* ------------------------------------------------ timers that do fire
\* Time does not stop while a timer is pending: the clock runs to the latest
\* due time, whenever the timer was set.
Horizon == CHOOSE m \in {MaxTicksTwo * Tick} \cup {t.due : t \in sched} :
              \A x \in {MaxTicksTwo * Tick} \cup {t.due : t \in sched} : x <= m

\* The event loop runs a due timer.
FireLive == (\E t \in sched : FireTimer(t)) /\ UNCHANGED <<limbo, legacy, ui>>

\* Time passes while it may.
TickLive == Advance(Horizon) /\ UNCHANGED <<limbo, legacy, ui>>

\* One task, a bounded number of startTimeout and extendTimeout calls, every
\* extendTimeout with a config.
NextLive ==
    \/ /\ nCalls < MaxCallsTwo
       /\ \E id \in OneId, c \in StartConfigs : StartTimeout(id, c)
       /\ UNCHANGED <<limbo, legacy, ui>>
    \/ /\ nCalls < MaxCallsTwo
       /\ \E id \in OneId, d \in Deltas, c \in ExtendContexts \ {None} :
             ExtendTimeout(id, d, c)
       /\ UNCHANGED <<limbo, legacy, ui>>
    \/ (\E id \in OneId : ClearTimeout(id)) /\ UNCHANGED <<limbo, legacy, ui>>
    \/ ClearAll /\ UNCHANGED <<limbo, legacy, ui>>
    \/ Dispose /\ UNCHANGED <<limbo, legacy, ui>>
    \/ FireLive
    \/ TickLive

\* The event loop runs every due timer, and time goes on.
SpecLive ==
    Init /\ [][NextLive]_vars /\ WF_vars(FireLive) /\ WF_vars(TickLive)

\* ---------------------- src/src/core/task/SubtaskTimeoutManager.ts
\* The manager of this file has the same startTimeout, clearTimeout, reads,
\* closures and dispose, no clearAll, and another extendTimeout.

\* An adjustedConfig whose timeoutMs is the whole new duration.
AdjustedConfigTotal(status, extensionMs, config, t) ==
    [config EXCEPT
        !.timeoutMs = status.timeoutMs + extensionMs,
        !.warningMs = RemainingWarningMs(status, t)]

\* adjustedConfig = {...config, timeoutMs: newTimeoutMs - elapsed,
\*                   warningMs: remainingWarningMs}
AdjustedConfig(status, extensionMs, config, t) ==
    [config EXCEPT
        !.timeoutMs = (status.timeoutMs + extensionMs) - Elapsed(status, t),
        !.warningMs = RemainingWarningMs(status, t)]

\* newStatus = {...status, timeoutMs: newTimeoutMs, hasWarned}: status is the
\* object that this.clearTimeout(taskId) has just marked inactive.
LegacyNewStatus(status, extensionMs, t) ==
    [status EXCEPT !.isActive = FALSE,
                   !.timeoutMs = status.timeoutMs + extensionMs,
                   !.hasWarned = WarnedAfterExtend(status, t)]

\* extendTimeout on an active record: clearTimeout, store newStatus, and with
\* a config startTimeout(taskId, adjustedConfig), which replaces newStatus.
legacyExtendTimeoutF(w, taskId, extensionMs, ctx, t, gen, seq) ==
    LET status == w.statuses[taskId]
        w1 == clearTimeoutF(w, taskId)
        w2 == [w1 EXCEPT !.statuses =
                  Put(@, taskId, LegacyNewStatus(status, extensionMs, t))]
    IN  IF ctx = None
        THEN w2
        ELSE startTimeoutF(w2, taskId,
                           AdjustedConfig(status, extensionMs, Val(ctx), t),
                           t, gen, seq)

\* config.onExtended?.(taskId, newTimeoutMs)
LegacyExtendedCalls(status, extensionMs, ctx) ==
    IF IsSome(ctx) /\ Val(ctx).onExtended
    THEN {status.timeoutMs + extensionMs}
    ELSE {}

LegacyExtendTimeout(taskId, extensionMs, ctx) ==
    LET ok == extendTimeoutRet(World, taskId)
    IN  /\ IF ok
           THEN /\ Commit([legacyExtendTimeoutF(World, taskId, extensionMs, ctx,
                                                now, hist[taskId].gen, nCalls)
                             EXCEPT !.hist[taskId].extended = TRUE])
                /\ nCalls' = nCalls + 1
           ELSE UNCHANGED <<statuses, timeouts, warnings, sched, hist, nCalls>>
        /\ lastOp' = [NoOp("extend") EXCEPT
                         !.id = taskId, !.ret = ok, !.delta = extensionMs,
                         !.ctx = ctx, !.pre = Get(statuses, taskId),
                         !.ext = IF ok
                                 THEN LegacyExtendedCalls(statuses[taskId],
                                                          extensionMs, ctx)
                                 ELSE {}]
        /\ UNCHANGED now

NextLegacy ==
    \/ /\ nCalls < MaxCallsTwo
       /\ \E id \in OneId, c \in StartConfigs : StartTimeout(id, c)
       /\ UNCHANGED <<limbo, legacy, ui>>
    \/ /\ nCalls < MaxCallsTwo
       /\ \E id \in OneId, d \in Deltas, c \in ExtendContexts :
             LegacyExtendTimeout(id, d, c)
       /\ UNCHANGED <<limbo, legacy, ui>>
    \/ (\E id \in OneId : ClearTimeout(id)) /\ UNCHANGED <<limbo, legacy, ui>>
    \/ Dispose /\ UNCHANGED <<limbo, legacy, ui>>
    \/ (\E t \in sched : FireTimer(t)) /\ UNCHANGED <<limbo, legacy, ui>>
    \/ Advance(MaxTicksTwo * Tick) /\ UNCHANGED <<limbo, legacy, ui>>

SpecLegacy == Init /\ [][NextLegacy]_vars

\* ------------------------------------------------- both managers, side by side
\* The manager of src/src/core/task/SubtaskTimeoutManager.ts is given the
\* calls that this one is given, at the same times, and its timers run when
\* this one's do.

\* startTimeout(taskId, config) at time t, and the callback record it opens.
legacyStartCall(w, taskId, config, t, seq) ==
    LET old == Get(w.statuses, taskId)
        gen == w.hist[taskId].gen + 1
        w1 == startTimeoutF(w, taskId, config, t, gen, seq)
        h == [NoHist EXCEPT !.gen = gen, !.cfg = Some(config), !.startAt = t,
                     !.replaced = {s.startTime + s.timeoutMs : s \in old}]
    IN  [w1 EXCEPT !.hist[taskId] = h]

\* extendTimeout(taskId, extensionMs, config) at time t.
legacyExtendCall(w, taskId, extensionMs, ctx, t, seq) ==
    IF extendTimeoutRet(w, taskId)
    THEN [legacyExtendTimeoutF(w, taskId, extensionMs, ctx, t,
                               w.hist[taskId].gen, seq)
             EXCEPT !.hist[taskId].extended = TRUE]
    ELSE w

\* clearTimeout(taskId) at time t.
legacyClearCall(w, taskId, t) ==
    [clearTimeoutF(w, taskId) EXCEPT
        !.hist = MarkEnded(@, {taskId} \cap DOMAIN w.statuses, "cleared", t)]

\* dispose() at time t.
legacyDisposeCall(w, t) ==
    [disposeF(w) EXCEPT !.hist = MarkEnded(@, DOMAIN w.statuses, "disposed", t)]

\* The closure of timer u runs at time t.
legacyFire(w, u, t) ==
    LET w0 == [w EXCEPT !.sched = @ \ {u}]
    IN  IF u.kind = "timeout"
        THEN timeoutHandlerF(w0, u, t)
        ELSE warningHandlerF(w0, u, t)

\* isActive(taskId) and getTimeRemaining(taskId) of the manager w at time t.
isActiveIn(w, taskId) ==
    IF taskId \in DOMAIN w.statuses THEN w.statuses[taskId].isActive ELSE FALSE

getTimeRemainingIn(w, taskId, t) ==
    IF taskId \notin DOMAIN w.statuses \/ ~w.statuses[taskId].isActive
    THEN 0
    ELSE Max(0, w.statuses[taskId].timeoutMs - (t - w.statuses[taskId].startTime))

\* The due timers of one kind for one task, in a timer queue.
DueTimers(q, id, kind) ==
    {t \in q : t.id = id /\ t.kind = kind /\ t.due <= now}

BothStart(taskId, config) ==
    /\ StartTimeout(taskId, config)
    /\ legacy' = legacyStartCall(legacy, taskId, config, now, nCalls)
    /\ UNCHANGED <<limbo, ui>>

\* extendTimeout with a config, the remaining time it asks for not below
\* minRemainingMs.
BothExtend(taskId, extensionMs, ctx) ==
    /\ IsSome(ctx)
    /\ isActive(taskId) => ~IsClamped(statuses[taskId], extensionMs, now)
    /\ ExtendTimeout(taskId, extensionMs, ctx)
    /\ legacy' = legacyExtendCall(legacy, taskId, extensionMs, ctx, now, nCalls)
    /\ UNCHANGED <<limbo, ui>>

BothClear(taskId) ==
    /\ ClearTimeout(taskId)
    /\ legacy' = legacyClearCall(legacy, taskId, now)
    /\ UNCHANGED <<limbo, ui>>

BothDispose ==
    /\ Dispose
    /\ legacy' = legacyDisposeCall(legacy, now)
    /\ UNCHANGED <<limbo, ui>>

\* The due timer of one kind of a task runs, in each manager that has one.
BothFire(taskId, kind) ==
    LET mine == DueTimers(sched, taskId, kind)
        theirs == DueTimers(legacy.sched, taskId, kind)
    IN  /\ mine \cup theirs # {}
        /\ IF mine # {}
           THEN \E t \in mine : FireTimer(t)
           ELSE /\ lastOp' = [NoOp("fire") EXCEPT !.id = taskId]
                /\ UNCHANGED <<now, statuses, timeouts, warnings, sched, hist,
                               nCalls>>
        /\ IF theirs # {}
           THEN \E u \in theirs : legacy' = legacyFire(legacy, u, now)
           ELSE UNCHANGED legacy
        /\ UNCHANGED <<limbo, ui>>

\* Time passes, but not past a timer of either manager.
BothAdvance ==
    /\ Advance(MaxTime)
    /\ \A u \in legacy.sched : u.due > now /\ u.due >= now'
    /\ UNCHANGED <<limbo, legacy, ui>>

NextBoth ==
    \/ /\ nCalls < MaxCalls
       /\ \E id \in OneId, c \in StartConfigs : BothStart(id, c)
    \/ /\ nCalls < MaxCalls
       /\ \E id \in OneId, d \in Deltas, c \in ExtendContexts : BothExtend(id, d, c)
    \/ \E id \in OneId : BothClear(id)
    \/ BothDispose
    \/ \E id \in OneId, kind \in {"warning", "timeout"} : BothFire(id, kind)
    \/ BothAdvance

SpecBoth == Init /\ [][NextBoth]_vars

\* ----------------------------------------------- the progress component
\* The component alone: it is mounted, given props, ticks and renders while
\* time passes.
NextUi ==
    \/ (\E p \in UiProps : UiMount(p)) /\ UNCHANGED now /\ UiFrame
    \/ (\E p \in UiProps : UiSetProps(p)) /\ UNCHANGED now /\ UiFrame
    \/ UiTick /\ UNCHANGED now /\ UiFrame
    \/ UiRender /\ UNCHANGED now /\ UiFrame
    \/ UiAdvance /\ UiFrame

SpecUi == Init /\ [][NextUi]_vars

\* ------------------------------------------- best-effort cancellation
\* The timers a step has taken out of the queue without running them.
Cancelled(fired) == (sched \ fired) \ sched'

\* A cancelled timer runs all the same, at the time it was due: its closure
\* sees the maps as they are now.  ret tells whether it did anything.
StaleFire(t) ==
    /\ t \in limbo
    /\ t.due <= now
    /\ LET w1 == IF t.kind = "timeout"
                 THEN timeoutHandlerF(World, t, now)
                 ELSE warningHandlerF(World, t, now)
       IN  /\ Commit(w1)
           /\ limbo' = (limbo \ {t}) \cup (sched \ w1.sched)
           /\ lastOp' = [NoOp("stale") EXCEPT
                            !.id = t.id, !.pre = Get(statuses, t.id),
                            !.ret = (w1 # World)]
    /\ UNCHANGED <<now, nCalls>>

\* One task; a timer that is cancelled may still run when it is due, and is
\* gone once its time has passed.
NextStale ==
    \/ /\ nCalls < MaxCallsTwo
       /\ \E id \in OneId, c \in StartConfigs : StartTimeout(id, c)
       /\ limbo' = limbo \cup Cancelled({})
       /\ UNCHANGED <<legacy, ui>>
    \/ /\ nCalls < MaxCallsTwo
       /\ \E id \in OneId, d \in Deltas, c \in ExtendContexts : ExtendTimeout(id, d, c)
       /\ limbo' = limbo \cup Cancelled({})
       /\ UNCHANGED <<legacy, ui>>
    \/ /\ \E id \in OneId : ClearTimeout(id)
       /\ limbo' = limbo \cup Cancelled({})
       /\ UNCHANGED <<legacy, ui>>
    \/ ClearAll /\ limbo' = limbo \cup Cancelled({}) /\ UNCHANGED <<legacy, ui>>
    \/ Dispose /\ limbo' = limbo \cup Cancelled({}) /\ UNCHANGED <<legacy, ui>>
    \/ /\ \E t \in sched : FireTimer(t) /\ limbo' = limbo \cup Cancelled({t})
       /\ UNCHANGED <<legacy, ui>>
    \/ (\E t \in limbo : StaleFire(t)) /\ UNCHANGED <<legacy, ui>>
    \/ /\ Advance(MaxTicksTwo * Tick)
       /\ limbo' = {t \in limbo : t.due > now}
       /\ UNCHANGED <<legacy, ui>>

SpecStale == Init /\ [][NextStale]_vars

\* ================================================================== claims
\* The config of the task's latest startTimeout, and its fields.
StartCfg(id) == Val(hist[id].cfg)
\* The task's latest startTimeout has been followed by no successful extend.
Pristine(id) == hist[id].gen > 0 /\ ~hist[id].extended
\* The status of the call lastOp is about, before the call.
PreStatus == Val(lastOp.pre)
PreElapsed == now - PreStatus.startTime
ExtendOnActive ==
    /\ lastOp.op = "extend"
    /\ IsSome(lastOp.pre)
    /\ PreStatus.isActive

\* C1: after startTimeout(id, {timeoutMs: d}) with d > 0 and no later call on
\* id, onTimeout(id) is invoked exactly once, exactly d after the start: never
\* before, never again, and from then on isActive(id) is false.
C1_TimeoutOnceAtDeadline ==
    \A id \in Ids :
        (Pristine(id) /\ StartCfg(id).timeoutMs > 0
         /\ hist[id].ended \in {"no", "expired"}) =>
            LET h == hist[id]
                deadline == h.startAt + StartCfg(id).timeoutMs
            IN  /\ h.nTimeout <= 1
                /\ h.nTimeout = 1 => (h.timeoutAt = deadline /\ ~isActive(id))
                /\ now > deadline => h.nTimeout = 1
                /\ now < deadline => (h.nTimeout = 0 /\ isActive(id))

C1_Witness ==
    \E id \in Ids :
        /\ Pristine(id)
        /\ hist[id].nTimeout = 1
        /\ hist[id].ended = "expired"
        /\ now > hist[id].timeoutAt
        /\ ~isActive(id)

\* C2: after startTimeout with 0 < warningMs = w < timeoutMs = d and onWarning
\* supplied, and no later call on id, onWarning(id, d - w) is invoked once, at
\* w after the start, before onTimeout at d, and never again.
C2_WarningOnceBeforeTimeout ==
    \A id \in Ids :
        (Pristine(id) /\ IsSome(StartCfg(id).warningMs) /\ StartCfg(id).onWarning
         /\ 0 < Val(StartCfg(id).warningMs)
         /\ Val(StartCfg(id).warningMs) < StartCfg(id).timeoutMs) =>
            LET h == hist[id]
                d == StartCfg(id).timeoutMs
                w == Val(StartCfg(id).warningMs)
            IN  /\ h.nWarning <= 1
                /\ h.nWarning = 1 => (h.warnAt = h.startAt + w /\ h.warnArg = d - w)
                /\ (now > h.startAt + w
                    /\ (h.ended = "no" \/ h.endedAt > h.startAt + w)) => h.nWarning = 1
                /\ now < h.startAt + w => h.nWarning = 0
                /\ h.nTimeout = 1 => (h.nWarning = 1 /\ h.warnAt < h.timeoutAt)

C2_Witness ==
    \E id \in Ids :
        /\ Pristine(id)
        /\ hist[id].nWarning = 1
        /\ hist[id].warnArg = StartCfg(id).timeoutMs - Val(StartCfg(id).warningMs)
        /\ hist[id].nTimeout = 1
        /\ now > hist[id].timeoutAt

\* C3: a second startTimeout(id) before the first expires cancels the first
\* generation: no closure of the first start ever calls back, nothing fires at
\* the first deadline, where isActive(id) is still true, and the callbacks of
\* the second start fire at times measured from the second call.
C3_RestartCancelsFirst ==
    \A id \in Ids :
        LET h == hist[id] IN
        /\ ~h.stale
        /\ (IsSome(h.replaced) /\ Pristine(id) /\ h.ended \in {"no", "expired"}) =>
              LET deadline == h.startAt + StartCfg(id).timeoutMs IN
              /\ (now <= Val(h.replaced) /\ now < deadline) =>
                    (isActive(id) /\ h.nTimeout = 0)
              /\ h.nTimeout >= 1 => h.timeoutAt = deadline
              /\ h.nWarning >= 1 =>
                    /\ h.warnAt = h.startAt + Val(StartCfg(id).warningMs)
                    /\ h.warnArg = StartCfg(id).timeoutMs - Val(StartCfg(id).warningMs)

C3_Witness ==
    \E id \in Ids :
        /\ IsSome(hist[id].replaced)
        /\ Pristine(id)
        /\ hist[id].startAt > 0
        /\ now > Val(hist[id].replaced)
        /\ hist[id].nTimeout = 1
        /\ hist[id].timeoutAt > Val(hist[id].replaced)

\* C4: right after every extendTimeout that returns true, whatever the delta
\* and with or without a config, getTimeRemaining(id) >= 60000.
C4_FloorAfterExtend ==
    (lastOp.op = "extend" /\ lastOp.ret) =>
        getTimeRemaining(lastOp.id) >= minRemainingMs

C4_Witness ==
    /\ ExtendOnActive
    /\ lastOp.ret
    /\ lastOp.delta < 0
    /\ lastOp.ctx = None
    /\ PreStatus.timeoutMs - PreElapsed < minRemainingMs
    /\ getTimeRemaining(lastOp.id) = minRemainingMs

\* C5: extendTimeout(id, -D) on an active record with d - e - D < 60000 is
\* clamped, not rejected: it returns true, getTimeRemaining(id) is 60000
\* exactly and the record's timeoutMs is e + 60000.
C5_ClampedExactly ==
    (ExtendOnActive /\ lastOp.delta < 0
     /\ PreStatus.timeoutMs - PreElapsed + lastOp.delta < minRemainingMs) =>
        /\ lastOp.ret
        /\ getTimeRemaining(lastOp.id) = minRemainingMs
        /\ statuses[lastOp.id].timeoutMs = PreElapsed + minRemainingMs

C5_Witness ==
    /\ ExtendOnActive
    /\ lastOp.delta < 0
    /\ PreElapsed > 0
    /\ PreStatus.timeoutMs - PreElapsed + lastOp.delta < 0
    /\ statuses[lastOp.id].timeoutMs = PreElapsed + minRemainingMs

C7_StartTimeFixed ==
    \A id \in DOMAIN statuses :
        /\ statuses[id].startTime = hist[id].startAt
        /\ statuses[id].warningMs = StartCfg(id).warningMs
        /\ statuses[id].taskId = id
        /\ statuses[id].isActive

C7_Witness ==
    \E id \in DOMAIN statuses :
        /\ hist[id].extended
        /\ hist[id].nWarning = 1
        /\ statuses[id].hasWarned
        /\ statuses[id].timeoutMs # StartCfg(id).timeoutMs
        /\ now > statuses[id].startTime
        /\ lastOp.op = "extend" /\ lastOp.ret

\* C8: after clearTimeout(id) on an active record isActive(id) is false and
\* getTimeRemaining(id) is 0, and until the next startTimeout(id) no onTimeout
\* and no onWarning is invoked for it, however far time advances.
C8_ClearedStaysSilent ==
    \A id \in Ids :
        hist[id].ended = "cleared" =>
            /\ ~hist[id].late
            /\ ~isActive(id)
            /\ getTimeRemaining(id) = 0
            /\ \A t \in sched : t.id # id

C8_Witness ==
    \E id \in Ids :
        /\ hist[id].ended = "cleared"
        /\ Pristine(id)
        /\ IsSome(StartCfg(id).warningMs)
        /\ hist[id].endedAt < hist[id].startAt + Val(StartCfg(id).warningMs)
        /\ now > hist[id].startAt + StartCfg(id).timeoutMs
        /\ hist[id].nTimeout = 0
        /\ hist[id].nWarning = 0

\* C9: clearTimeout(id) returns true exactly when id has an active record at
\* the call, and a second clearTimeout(id) right after the first returns false
\* and changes nothing.
C9_ClearReturn ==
    [][lastOp'.op = "clear" =>
          /\ lastOp'.ret = isActive(lastOp'.id)
          /\ lastOp'.id \notin DOMAIN statuses'
          /\ (lastOp.op = "clear" /\ lastOp.id = lastOp'.id) =>
                /\ ~lastOp'.ret
                /\ UNCHANGED <<statuses, timeouts, warnings, sched, hist>>]_vars

C9_Witness ==
    /\ lastOp.op = "clear"
    /\ ~lastOp.ret
    /\ hist[lastOp.id].ended = "cleared"
    /\ hist[lastOp.id].endedAt = now
    /\ hist[lastOp.id].extended

\* C10: clearAll() deactivates every active id at once: right after it
\* getActiveTimeouts() is empty, and until its next startTimeout no record that
\* it ended is active or called back; a record started afterwards is active.
C10_ClearAllEndsAll ==
    /\ lastOp.op = "clearAll" =>
          (getActiveTimeouts = {} /\ \A id \in Ids : ~isActive(id))
    /\ \A id \in Ids :
          /\ hist[id].ended = "clearedAll" =>
                (~hist[id].late /\ ~isActive(id) /\ \A t \in sched : t.id # id)
          /\ (hist[id].gen > 0 /\ hist[id].ended = "no") => isActive(id)

C10_Witness ==
    /\ \A id \in Ids :
          /\ hist[id].ended = "clearedAll"
          /\ hist[id].nTimeout = 0
          /\ now > hist[id].startAt + StartCfg(id).timeoutMs
    /\ \E id \in Ids : hist[id].nWarning = 0

\* C11: dispose() cancels every pending timer and empties the three maps, so
\* the manager is as after construction: no id is active, every remaining time
\* is 0, no record it ended calls back afterwards, extendTimeout and
\* clearTimeout on such an id return false, and a later startTimeout gives an
\* active record with its timeout pending.
C11_DisposeResets ==
    /\ lastOp.op = "dispose" =>
          /\ statuses = Empty /\ timeouts = Empty /\ warnings = Empty
          /\ sched = {}
          /\ getActiveTimeouts = {}
          /\ \A id \in Ids : ~isActive(id) /\ getTimeRemaining(id) = 0
    /\ \A id \in Ids :
          hist[id].ended = "disposed" =>
             /\ ~hist[id].late /\ hist[id].nTimeout = 0
             /\ ~isActive(id) /\ getTimeRemaining(id) = 0
             /\ \A t \in sched : t.id # id
    /\ (lastOp.op \in {"extend", "clear"} /\ hist[lastOp.id].ended = "disposed")
          => ~lastOp.ret
    /\ lastOp.op = "start" =>
          /\ isActive(lastOp.id)
          /\ lastOp.id \in DOMAIN timeouts
          /\ timeouts[lastOp.id] \in sched

C11_Witness ==
    /\ \A id \in Ids :
          /\ hist[id].ended = "disposed"
          /\ now > hist[id].startAt + StartCfg(id).timeoutMs
    /\ lastOp.op = "clear"
    /\ ~lastOp.ret

\* C12: extendTimeout(id, delta, ctx) on an id without an active record (never
\* started, cleared, expired or disposed) returns false and does nothing: the
\* maps, the pending timers and the callback record are unchanged and
\* onExtended is not called.
C12_ExtendInactiveNoOp ==
    [][(lastOp'.op = "extend" /\ ~isActive(lastOp'.id)) =>
          /\ ~lastOp'.ret
          /\ lastOp'.ext = {}
          /\ UNCHANGED <<statuses, timeouts, warnings, sched, hist>>]_vars

C12_Witness ==
    /\ lastOp.op = "extend"
    /\ ~lastOp.ret
    /\ IsSome(lastOp.ctx)
    /\ Val(lastOp.ctx).onExtended
    /\ hist[lastOp.id].ended = "expired"
    /\ now > hist[lastOp.id].endedAt

\* C13: getTimeRemaining(id) is 0 when id has no active record (never
\* started, expired, cleared or disposed) and otherwise the record's
\* max(0, timeoutMs - (now - startTime)), at every time; for a record that
\* was not extended that is max(0, d - (now - start time)) of its config.
C13_TimeRemaining ==
    \A id \in Ids :
        /\ (hist[id].gen = 0 \/ hist[id].ended # "no")
              => getTimeRemaining(id) = 0
        /\ isActive(id) =>
              getTimeRemaining(id) =
                 Max(0, statuses[id].timeoutMs - (now - statuses[id].startTime))
        /\ (Pristine(id) /\ hist[id].ended = "no") =>
              getTimeRemaining(id) =
                 Max(0, StartCfg(id).timeoutMs - (now - hist[id].startAt))
        /\ getTimeRemaining(id) >= 0

\* An active record whose deadline has passed: the remaining time is 0.
C13_Witness ==
    \E id \in Ids :
        /\ isActive(id)
        /\ now - statuses[id].startTime > statuses[id].timeoutMs
        /\ getTimeRemaining(id) = 0

\* C14: getActiveTimeouts() is exactly the set of ids whose latest
\* startTimeout was followed by no expiry, clearTimeout, clearAll or dispose;
\* the map holds no record with isActive = false, so isActive(id) is true iff
\* id is a key of the map.
C14_ActiveSet ==
    /\ getActiveTimeouts =
          {id \in Ids : hist[id].gen > 0 /\ hist[id].ended = "no"}
    /\ \A id \in DOMAIN statuses : statuses[id].isActive
    /\ \A id \in Ids : isActive(id) <=> id \in DOMAIN statuses

C14_Witness ==
    /\ getActiveTimeouts = {"task2"}
    /\ hist["task1"].ended = "expired"
    /\ hist["task2"].nWarning = 1

\* C15: between a startTimeout and the record's expiry, clear or replacement
\* onWarning is called at most once, whatever extendTimeout calls with an
\* onWarning follow: once it was called, no warning timer is pending again.
C15_WarningAtMostOnce ==
    \A id \in Ids :
        /\ hist[id].nWarning <= 1
        /\ hist[id].nWarning = 1 =>
              /\ \A t \in sched : ~(t.id = id /\ t.kind = "warning")
              /\ isActive(id) => statuses[id].hasWarned

\* The warning was delivered and a later extendTimeout with an onWarning
\* has lengthened the record.
C15_Witness ==
    /\ lastOp.op = "extend"
    /\ lastOp.ret
    /\ lastOp.delta > 0
    /\ IsSome(lastOp.ctx)
    /\ Val(lastOp.ctx).onWarning
    /\ hist[lastOp.id].nWarning = 1
    /\ now > hist[lastOp.id].warnAt
    /\ isActive(lastOp.id)

C17_EndedStaysEnded ==
    /\ \A id \in Ids :
          hist[id].ended \in {"expired", "cleared"} =>
             /\ ~isActive(id)
             /\ id \notin DOMAIN statuses
             /\ id \notin DOMAIN timeouts /\ id \notin DOMAIN warnings
             /\ \A t \in sched : t.id # id
             /\ ~hist[id].late
             /\ hist[id].nTimeout = (IF hist[id].ended = "expired" THEN 1 ELSE 0)
    /\ (lastOp.op = "extend"
          /\ hist[lastOp.id].ended \in {"expired", "cleared"}) =>
             (~lastOp.ret /\ lastOp.ext = {})

\* extendTimeout with a config was refused on an expired record, and time
\* has passed since.
C17_Witness ==
    /\ lastOp.op = "extend"
    /\ ~lastOp.ret
    /\ IsSome(lastOp.ctx)
    /\ hist[lastOp.id].ended = "expired"
    /\ hist[lastOp.id].extended
    /\ hist[lastOp.id].nTimeout = 1

\* C18: startTimeout with timeoutMs <= 0 returns with the record active, no
\* callback called and the timeout timer pending and due at once; with no
\* other call on the id the timer runs before time passes, onTimeout is
\* called exactly once, at the time of the start, and the record is removed.
C18_NonPositiveTimeout ==
    \A id \in Ids :
        (hist[id].gen > 0 /\ StartCfg(id).timeoutMs <= 0) =>
           /\ (lastOp.op = "start" /\ lastOp.id = id) =>
                 /\ isActive(id)
                 /\ hist[id].nTimeout = 0 /\ hist[id].nWarning = 0
                 /\ id \in DOMAIN timeouts
                 /\ timeouts[id] \in sched
                 /\ timeouts[id].due = now
           /\ (Pristine(id) /\ hist[id].ended \in {"no", "expired"}) =>
                 /\ hist[id].nTimeout <= 1
                 /\ hist[id].nTimeout = 1 <=> hist[id].ended = "expired"
                 /\ hist[id].nTimeout = 1 =>
                       /\ hist[id].timeoutAt = hist[id].startAt
                       /\ id \notin DOMAIN statuses
                       /\ \A t \in sched : t.id # id
                 /\ now > hist[id].startAt => hist[id].nTimeout = 1
                 /\ ~hist[id].late

\* A record started with a negative timeoutMs has expired at its start time.
C18_Witness ==
    \E id \in Ids :
        /\ Pristine(id)
        /\ StartCfg(id).timeoutMs < 0
        /\ hist[id].nTimeout = 1
        /\ hist[id].timeoutAt = hist[id].startAt
        /\ ~isActive(id)
        /\ now > hist[id].startAt

\* C19: in src/src/core/task/SubtaskTimeoutManager.ts a successful
\* extendTimeout(id, extensionMs, config) leaves the record with the
\* startTime it had and with timeoutMs raised by extensionMs, so elapsed time
\* read from getStatus(id).startTime does not restart at the extension.
C19_LegacyKeepsStartTime ==
    (lastOp.op = "extend" /\ lastOp.ret /\ IsSome(lastOp.ctx)) =>
        /\ lastOp.id \in DOMAIN statuses
        /\ statuses[lastOp.id].startTime = PreStatus.startTime
        /\ statuses[lastOp.id].timeoutMs = PreStatus.timeoutMs + lastOp.delta

\* C20: after extendTimeout(id, delta, ctx) with a config has returned true,
\* exactly one timeout timer is pending for id, the one of this call with the
\* config's onTimeout, due getTimeRemaining(id) from now, which is startTime
\* + the new timeoutMs; with no later call onTimeout is called once, at that
\* time, and at no other (not at the deadline the call replaced).
C20_ExtendReschedulesTimeout ==
    /\ (lastOp.op = "extend" /\ lastOp.ret /\ IsSome(lastOp.ctx)) =>
          LET id == lastOp.id
              pending == {t \in sched : t.id = id /\ t.kind = "timeout"}
          IN  /\ id \in DOMAIN timeouts
              /\ pending = {timeouts[id]}
              /\ timeouts[id].config = Val(lastOp.ctx)
              /\ timeouts[id].due = now + getTimeRemaining(id)
              /\ timeouts[id].due =
                    statuses[id].startTime + statuses[id].timeoutMs
              /\ hist[id].expect = Some(timeouts[id].due)
              /\ hist[id].nTimeout = 0
    /\ \A id \in Ids :
          IsSome(hist[id].expect) =>
             /\ hist[id].nTimeout <= 1
             /\ hist[id].nTimeout = 1 => hist[id].timeoutAt = Val(hist[id].expect)
             /\ hist[id].ended = "no" => now <= Val(hist[id].expect)

\* The extended record has expired at the new deadline, after the one of
\* its startTimeout had passed.
C20_Witness ==
    \E id \in Ids :
        /\ IsSome(hist[id].expect)
        /\ hist[id].nTimeout = 1
        /\ hist[id].timeoutAt = Val(hist[id].expect)
        /\ hist[id].timeoutAt > hist[id].startAt + StartCfg(id).timeoutMs

\* C21: after an extendTimeout with an onWarning that returns true on a
\* record with warningMs w > 0, elapsed < w and hasWarned false, a warning
\* timer is pending for startTime + w, clamped to the floor or not.
C21_WarningRescheduled ==
    (/\ ExtendOnActive
     /\ lastOp.ret
     /\ IsSome(lastOp.ctx)
     /\ Val(lastOp.ctx).onWarning
     /\ Truthy(PreStatus.warningMs)
     /\ Val(PreStatus.warningMs) > 0
     /\ PreElapsed < Val(PreStatus.warningMs)
     /\ ~PreStatus.hasWarned) =>
        /\ lastOp.id \in DOMAIN warnings
        /\ warnings[lastOp.id] \in sched
        /\ warnings[lastOp.id].due =
              PreStatus.startTime + Val(PreStatus.warningMs)
        /\ warnings[lastOp.id].config = Val(lastOp.ctx)

C23_ExtendWithoutConfig ==
    /\ (ExtendOnActive /\ lastOp.ret /\ lastOp.ctx = None) =>
          /\ isActive(lastOp.id)
          /\ statuses[lastOp.id].timeoutMs =
                (IF (PreStatus.timeoutMs + lastOp.delta) - PreElapsed < minRemainingMs
                 THEN PreElapsed + minRemainingMs
                 ELSE PreStatus.timeoutMs + lastOp.delta)
          /\ lastOp.ext = {}
          /\ hist[lastOp.id].expect = None
    /\ \A id \in Ids :
          (hist[id].extended /\ hist[id].expect = None /\ hist[id].ended = "no") =>
             /\ isActive(id)
             /\ id \notin DOMAIN timeouts /\ id \notin DOMAIN warnings
             /\ \A t \in sched : t.id # id
             /\ hist[id].nTimeout = 0
             /\ getTimeRemaining(id) =
                   Max(0, statuses[id].startTime + statuses[id].timeoutMs - now)

\* The record has outlived its deadline: its warning was cancelled before it
\* was due and nothing has called back.
C23_Witness ==
    \E id \in Ids :
        /\ hist[id].extended /\ hist[id].expect = None /\ hist[id].ended = "no"
        /\ isActive(id)
        /\ now > statuses[id].startTime + statuses[id].timeoutMs
        /\ getTimeRemaining(id) = 0
        /\ Truthy(statuses[id].warningMs)
        /\ hist[id].nWarning = 0

\* C24: hasWarned of a record never goes from true to false while the record
\* is the same (no startTimeout in between), whatever extendTimeout calls are
\* made, clamped or not; a record made by a later startTimeout starts with
\* hasWarned false.
C24_HasWarnedMonotonic ==
    [][\A id \in Ids :
          /\ (/\ id \in DOMAIN statuses
              /\ statuses[id].hasWarned
              /\ id \in DOMAIN statuses'
              /\ hist'[id].gen = hist[id].gen) => statuses'[id].hasWarned
          /\ (id \in DOMAIN statuses' /\ hist'[id].gen # hist[id].gen)
                => ~statuses'[id].hasWarned]_vars

\* A warned record was extended by a clamped request and is still warned.
C24_Witness ==
    /\ ExtendOnActive
    /\ lastOp.ret
    /\ PreStatus.hasWarned
    /\ statuses[lastOp.id].hasWarned
    /\ (PreStatus.timeoutMs + lastOp.delta) - PreElapsed < minRemainingMs
    /\ hist[lastOp.id].nWarning = 1

\* C25: when the startTimeout and every extendTimeout of a record were given
\* an onWarning (every call of the runs with two tasks is), hasWarned is true
\* only if onWarning was called for the record, and a record with a
\* warningMs that is not yet warned has its warning timer pending.
C25_WarnedMeansDelivered ==
    \A id \in Ids :
        (isActive(id) /\ StartCfg(id).onWarning) =>
           /\ statuses[id].hasWarned => hist[id].nWarning >= 1
           /\ (Truthy(statuses[id].warningMs) /\ ~statuses[id].hasWarned) =>
                 (id \in DOMAIN warnings /\ warnings[id] \in sched)

\* C26: no timer leaks: every id has at most one timeout timer and at most
\* one warning timer pending, each is the handle stored for the id, and a
\* timer is pending only for an id with an active record.
C26_NoLeakedTimers ==
    /\ \A t \in sched :
          /\ isActive(t.id)
          /\ t.kind = "timeout" => (t.id \in DOMAIN timeouts /\ timeouts[t.id] = t)
          /\ t.kind = "warning" => (t.id \in DOMAIN warnings /\ warnings[t.id] = t)
    /\ \A id \in Ids :
          /\ Cardinality({t \in sched : t.id = id /\ t.kind = "timeout"}) <= 1
          /\ Cardinality({t \in sched : t.id = id /\ t.kind = "warning"}) <= 1

\* A record that was replaced and then extended has just its two timers.
C26_Witness ==
    \E id \in Ids :
        /\ hist[id].gen >= 2
        /\ hist[id].extended
        /\ Cardinality({t \in sched : t.id = id}) = 2
        /\ now > hist[id].startAt

C28_FloorBeforeTimeout ==
    /\ (ExtendOnActive /\ lastOp.ret) =>
          /\ getTimeRemaining(lastOp.id) >= minRemainingMs
          /\ \A t \in sched :
                (t.id = lastOp.id /\ t.kind = "timeout") =>
                    t.due >= now + minRemainingMs
          /\ \A due \in hist[lastOp.id].expect : due >= now + minRemainingMs
          /\ hist[lastOp.id].nTimeout = 0
    /\ \A id \in Ids :
          (hist[id].extended /\ hist[id].nTimeout >= 1) =>
             /\ IsSome(hist[id].expect)
             /\ hist[id].timeoutAt = Val(hist[id].expect)

\* A reduced record has expired before the deadline of its startTimeout.
C28_Witness ==
    \E id \in Ids :
        /\ hist[id].extended
        /\ hist[id].nTimeout = 1
        /\ hist[id].timeoutAt = Val(hist[id].expect)
        /\ hist[id].timeoutAt < hist[id].startAt + StartCfg(id).timeoutMs
        /\ hist[id].startAt > 0

\* C29: the timeout closure removes the record and clears the pending
\* warning before it calls onTimeout: no onTimeout call finds the record
\* active, nothing is pending or called for an expired record, and a record
\* that onTimeout starts by startTimeout(id) is there, active and with its
\* timeout pending, when the closure has returned.
C29_ExpiredBeforeCallback ==
    /\ \A id \in Ids :
          /\ ~hist[id].seenActive
          /\ hist[id].ended = "expired" =>
                /\ ~isActive(id)
                /\ \A t \in sched : t.id # id
                /\ ~hist[id].late
    /\ (lastOp.op = "fire" /\ hist[lastOp.id].ended = "expired"
          /\ hist[lastOp.id].endedAt = now) =>
             lastOp.id \notin DOMAIN statuses
    /\ lastOp.op = "fireRestart" =>
          /\ lastOp.ret
          /\ isActive(lastOp.id)
          /\ statuses[lastOp.id].startTime = now
          /\ statuses[lastOp.id].timeoutMs = Val(lastOp.ctx).timeoutMs
          /\ ~statuses[lastOp.id].hasWarned
          /\ lastOp.id \in DOMAIN timeouts
          /\ timeouts[lastOp.id] \in sched
          /\ timeouts[lastOp.id].config = Val(lastOp.ctx)
          /\ \A t \in sched : t.id = lastOp.id => t.gen = hist[lastOp.id].gen

\* The timeout of a record whose warning was still pending has fired and its
\* callback has started the task again.
C29_Witness ==
    /\ lastOp.op = "fireRestart"
    /\ lastOp.ret
    /\ isActive(lastOp.id)
    /\ now > 0
    /\ hist[lastOp.id].gen = 2
    /\ IsSome(lastOp.pre)
    /\ Truthy(Val(lastOp.pre).warningMs)
    /\ ~Val(lastOp.pre).hasWarned

\* The pending timers of a task.
TimersOf(id) == {t \in sched : t.id = id}

\* C30: records are independent: startTimeout, extendTimeout and clearTimeout
\* on one id, and the firing of that id's warning or timeout, leave every
\* other id's record, handles, pending timers and callback log unchanged, so
\* the callbacks of a record that was never extended come at the times its own
\* config gives, whatever happened to the other id.
C30_RecordsIndependent ==
    [][\A b \in Ids :
          /\ (lastOp'.op \in {"start", "extend", "clear", "fire"}
              /\ lastOp'.id # b) =>
                /\ Get(statuses, b)' = Get(statuses, b)
                /\ Get(timeouts, b)' = Get(timeouts, b)
                /\ Get(warnings, b)' = Get(warnings, b)
                /\ TimersOf(b)' = TimersOf(b)
                /\ hist'[b] = hist[b]
          /\ (Pristine(b)' /\ hist'[b].nTimeout = 1) =>
                hist'[b].timeoutAt = hist'[b].startAt + StartCfg(b)'.timeoutMs
          /\ (Pristine(b)' /\ hist'[b].nWarning = 1) =>
                hist'[b].warnAt =
                    hist'[b].startAt + Val(StartCfg(b)'.warningMs)]_vars

\* The timeout of task1 has just fired while task2, started later, is active
\* with its warning delivered and its timeout pending.
C30_Witness ==
    /\ lastOp.op = "fire"
    /\ lastOp.id = "task1"
    /\ hist["task1"].ended = "expired"
    /\ isActive("task2")
    /\ hist["task2"].nWarning = 1
    /\ hist["task2"].startAt > hist["task1"].startAt
    /\ "task2" \in DOMAIN timeouts
    /\ timeouts["task2"] \in sched

\* C31: startTimeout schedules a warning whenever the config supplies both
\* warningMs and onWarning, whatever the value of warningMs (0 included, the
\* warning then being due at once), and omits it only when one of the two is
\* not supplied.
C31_WarningWheneverSupplied ==
    lastOp.op = "start" =>
        LET c == StartCfg(lastOp.id)
        IN  /\ (IsSome(c.warningMs) /\ c.onWarning) <=>
                   lastOp.id \in DOMAIN warnings
            /\ lastOp.id \in DOMAIN warnings =>
                   /\ warnings[lastOp.id] \in sched
                   /\ warnings[lastOp.id].due = now + Max(Val(c.warningMs), 0)

\* C32: when every due timer is run, the calls of startTimeout and
\* extendTimeout are finitely many and every extendTimeout is given a config,
\* every active record leaves the table, by its timeout firing or by
\* clearTimeout, clearAll or dispose: no record stays active for ever.
C32_EveryRecordLeaves ==
    \A id \in OneId :
        isActive(id) ~> (~isActive(id) /\ id \notin DOMAIN statuses
                         /\ hist[id].ended \in
                               {"expired", "cleared", "clearedAll", "disposed"})

\* A record that was extended with a config below the floor has expired, at
\* the time that extendTimeout left.
C32_Witness ==
    \E id \in OneId :
        /\ hist[id].extended
        /\ IsSome(hist[id].expect)
        /\ hist[id].ended = "expired"
        /\ hist[id].timeoutAt = Val(hist[id].expect)
        /\ hist[id].timeoutAt > MaxTicksTwo * Tick
        /\ ~isActive(id)

\* The extensions that are composed: those of the calls, and none.
AddDeltas == Deltas \cup {0}

\* What a call leaves of a task: the record's fields and the due times of its
\* pending timers and of its handles.
Outcome(w, id) ==
    [timeoutMs |-> w.statuses[id].timeoutMs,
     startTime |-> w.statuses[id].startTime,
     hasWarned |-> w.statuses[id].hasWarned,
     pending |-> {<<t.kind, t.due>> : t \in {x \in w.sched : x.id = id}},
     timeout |-> {t.due : t \in Get(w.timeouts, id)},
     warning |-> {t.due : t \in Get(w.warnings, id)}]

\* extendTimeout(id, a, ctx) and, at once, extendTimeout(id, b, ctx).
ExtendTwice(id, a, b, ctx) ==
    LET r1 == extendTimeoutCall(World, id, a, ctx, now, hist[id].gen, nCalls)
    IN  extendTimeoutCall(r1.w, id, b, ctx, now, hist[id].gen, nCalls + 1)

\* Neither the first of the two calls nor the second, nor the single call for
\* a + b, falls below the floor.
NoFloor(id, a, b, ctx) ==
    LET r1 == extendTimeoutCall(World, id, a, ctx, now, hist[id].gen, nCalls)
    IN  /\ ~IsClamped(statuses[id], a, now)
        /\ ~IsClamped(r1.w.statuses[id], b, now)
        /\ ~IsClamped(statuses[id], a + b, now)

\* C33: at one instant and above the floor, extendTimeout(id, a, ctx) followed
\* by extendTimeout(id, b, ctx) leaves the timeoutMs, startTime, hasWarned and
\* pending due times that the single extendTimeout(id, a + b, ctx) leaves; so
\* +D then -D, and an extension of 0, leave the record's timeoutMs and its
\* timeout where they were.
C33_ExtensionsAdd ==
    \A id \in OneId :
        isActive(id) =>
            \A a \in AddDeltas, b \in AddDeltas, ctx \in ExtendContexts \ {None} :
                NoFloor(id, a, b, ctx) =>
                    LET two == ExtendTwice(id, a, b, ctx)
                        one == extendTimeoutCall(World, id, a + b, ctx, now,
                                                 hist[id].gen, nCalls)
                    IN  /\ two.ret /\ one.ret
                        /\ Outcome(two.w, id) = Outcome(one.w, id)
                        /\ a + b = 0 =>
                              /\ Outcome(two.w, id).timeoutMs = statuses[id].timeoutMs
                              /\ Outcome(two.w, id).timeout =
                                    {statuses[id].startTime + statuses[id].timeoutMs}
                              /\ \A t \in Get(timeouts, id) :
                                    Outcome(two.w, id).timeout = {t.due}

\* After the start, time has passed, and the record was lengthened by one
\* Tick and shortened by one Tick again, never below the floor: it has the
\* timeoutMs and the timeout of its start.
C33_Witness ==
    \E id \in OneId :
        /\ lastOp.op = "extend"
        /\ lastOp.ret
        /\ lastOp.delta = 0 - Tick
        /\ IsSome(lastOp.ctx)
        /\ PreElapsed > 0
        /\ PreStatus.timeoutMs = StartCfg(id).timeoutMs + Tick
        /\ ~IsClamped(PreStatus, lastOp.delta, now)
        /\ statuses[id].timeoutMs = StartCfg(id).timeoutMs
        /\ timeouts[id].due = hist[id].startAt + StartCfg(id).timeoutMs
        /\ NoFloor(id, Tick, 0 - Tick, lastOp.ctx)

\* What the caller of a manager w has seen of a task: the callbacks and their
\* arguments and times, and what the reads return.
Seen(w, id) ==
    [nTimeout |-> w.hist[id].nTimeout, timeoutAt |-> w.hist[id].timeoutAt,
     nWarning |-> w.hist[id].nWarning, warnAt |-> w.hist[id].warnAt,
     warnArg |-> w.hist[id].warnArg,
     isActive |-> isActiveIn(w, id),
     remaining |-> getTimeRemainingIn(w, id, now)]

\* C34: given the same startTimeout, extendTimeout with a config (the
\* remaining time it asks for not below 60000), clearTimeout and dispose calls
\* and the same timer firings, the two managers call onTimeout and onWarning
\* at the same times with the same arguments, and their isActive and
\* getTimeRemaining return the same values.
C34_ManagersAgree ==
    \A id \in OneId :
        /\ Seen(World, id) = Seen(legacy, id)
        /\ getTimeRemaining(id) = getTimeRemainingIn(legacy, id, now)
        /\ isActive(id) = isActiveIn(legacy, id)

\* Both managers have delivered the warning of the start, were then
\* lengthened by one Tick, the older one restarting its record, and have
\* delivered the timeout, one Tick after the time the start had set.
C34_Witness ==
    \E id \in OneId :
        /\ hist[id].extended /\ legacy.hist[id].extended
        /\ hist[id].nWarning = 1 /\ legacy.hist[id].nWarning = 1
        /\ hist[id].warnArg =
              StartCfg(id).timeoutMs - Val(StartCfg(id).warningMs)
        /\ hist[id].nTimeout = 1 /\ legacy.hist[id].nTimeout = 1
        /\ hist[id].timeoutAt = legacy.hist[id].timeoutAt
        /\ hist[id].timeoutAt = hist[id].startAt + StartCfg(id).timeoutMs + Tick

\* The props of a component state, as the deps of its reset effect.
PropsOf(u) == <<u.taskId, u.timeoutMs, u.startTime>>

\* From u to v the reset effect has run for an extension: the deps it ran
\* with before differ from the new ones in timeoutMs alone.
ExtensionRendered(u, v) ==
    /\ u.mounted
    /\ IsSome(u.resetDeps)
    /\ v.resetDeps # u.resetDeps
    /\ Val(v.resetDeps)[1] = Val(u.resetDeps)[1]
    /\ Val(v.resetDeps)[3] = Val(u.resetDeps)[3]

\* C35: when the props of the progress component change in timeoutMs alone,
\* the render and the reset effect that follow do not set currentTime back,
\* so elapsed = currentTime - startTime does not decrease; currentTime is set
\* to startTime, and only then decreases, when the effect runs for another
\* taskId or startTime (the mount included).
C35_ElapsedContinuity ==
    [][/\ (ui.mounted /\ ui'.taskId = ui.taskId /\ ui'.startTime = ui.startTime
           /\ ui'.timeoutMs # ui.timeoutMs) =>
              /\ ExtensionRendered(ui, ui')
              /\ elapsed(ui') = elapsed(ui)
       /\ ExtensionRendered(ui, ui') =>
              /\ ui'.currentTime = ui.currentTime
              /\ ui'.resets = ui.resets
              /\ elapsed(ui') >= elapsed(ui)
       /\ (ui.mounted /\ ui'.resets # ui.resets) =>
              /\ ui'.currentTime = ui'.startTime
              /\ elapsed(ui') = 0
              /\ \/ ui.resetDeps = None
                 \/ Val(ui'.resetDeps)[1] # Val(ui.resetDeps)[1]
                 \/ Val(ui'.resetDeps)[3] # Val(ui.resetDeps)[3]
       /\ (ui.mounted /\ ui'.currentTime < ui.currentTime) =>
              ui'.resets # ui.resets]_vars

\* The component has ticked since its mount, was then given another timeoutMs
\* and has rendered it: its only reset is that of the mount and its elapsed
\* time is what it was.
C35_Witness ==
    /\ ui.mounted
    /\ ui.nProps = 1
    /\ ui.resets = 1
    /\ ~ui.stale
    /\ ui.resetDeps = Some(PropsOf(ui))
    /\ ui.timeoutMs = 2 * IntervalMs
    /\ elapsed(ui) > 0
    /\ ui.currentTime = now

\* The component as the render of a step finds it: mounted, given the props
\* of the step, or as it was.
Rendered ==
    IF ~ui.mounted
    THEN [ui' EXCEPT !.currentTime = now, !.isExpired = FALSE]
    ELSE [ui EXCEPT !.taskId = ui'.taskId, !.timeoutMs = ui'.timeoutMs,
                    !.startTime = ui'.startTime]

\* C36: the component posts timeoutExpired only in a render whose remaining
\* time is 0 or below, and at most once between two changes of its props,
\* whatever ticks and renders come while it is expired; every change of the
\* props arms the notification again.
C36_NotifiedOncePerProps ==
    [][/\ ui'.posted <= 1
       /\ ui'.mounted => (ui'.expiredNotifiedRef <=> ui'.posted = 1)
       /\ ui'.notifications # ui.notifications =>
              /\ ui'.notifications = ui.notifications + 1
              /\ remaining(Rendered) <= 0
              /\ ui'.posted = 1
              /\ ui'.isExpired
       /\ (ui.mounted /\ ui'.nProps # ui.nProps
           /\ ui'.notifications = ui.notifications) =>
              /\ ui'.posted = 0
              /\ ~ui'.expiredNotifiedRef
       /\ (ui.posted = 1 /\ ui'.nProps = ui.nProps) =>
              /\ ui'.posted = 1
              /\ ui'.notifications = ui.notifications]_vars

\* The component has posted for the props of its mount, was given a longer
\* timeoutMs, ticked until that had passed too, and has posted again.
C36_Witness ==
    /\ ui.mounted
    /\ ui.nProps = 1
    /\ ui.resets = 1
    /\ ui.timeoutMs = 2 * IntervalMs
    /\ ui.posted = 1
    /\ ui.notifications = 2
    /\ ui.isExpired
    /\ ~ui.stale
    /\ ui.currentTime = now
    /\ elapsed(ui) >= ui.timeoutMs
    /\ now > ui.mountedAt + IntervalMs
====
